---- MODULE Spec2Model ----
(***************************************************************************)
(* Model of src/parser/main.py: main() builds an argparse.ArgumentParser   *)
(* with the description "Instrument C code for tracing.", one positional   *)
(* argument input_file and one option -o/--output, and calls parse_args()  *)
(* on the process's argument vector.  The parse is modelled step by step   *)
(* as the standard library (CPython 3.11) executes it for this parser:     *)
(* the scan that classifies every token, the loop that alternately         *)
(* consumes positionals and optionals, and the final checks.               *)
(*                                                                         *)
(* A token is a sequence of one-character strings, so that prefixes,       *)
(* "=" splitting and attached values are computed, not assumed.            *)
(* Indices are 1-based here where Python's are 0-based.                    *)
(***************************************************************************)
EXTENDS Integers, Sequences, FiniteSets, TLC

VARIABLES argv, pc, arg_strings_pattern, start_index, positionals,
          namespace, seen_actions, extras, args, exit_status, stdout, stderr,
          files_touched

vars == <<argv, pc, arg_strings_pattern, start_index, positionals,
          namespace, seen_actions, extras, args, exit_status, stdout, stderr,
          files_touched>>

----------------------------------------------------------------------------
(* Bounds of the model *)

\* longest argument vector drawn from the core tokens
MaxArgs == 4
\* longest argument vector drawn from the whole token set
MaxEdgeArgs == 3

----------------------------------------------------------------------------
(* Tokens *)

tok_f == <<"f">>
tok_x == <<"x">>
tok_o == <<"-", "o">>
tok_output == <<"-", "-", "o", "u", "t", "p", "u", "t">>
tok_h == <<"-", "h">>
tok_help == <<"-", "-", "h", "e", "l", "p">>
tok_dashdash == <<"-", "-">>
tok_unknown == <<"-", "x">>
tok_out == <<"-", "-", "o", "u", "t">>
tok_ox == <<"-", "o", "x">>
tok_ambiguous == <<"-", "-", "=", "x">>
tok_minus1 == <<"-", "1">>
tok_ho == <<"-", "h", "o">>
tok_output_eq == <<"-", "-", "o", "u", "t", "p", "u", "t", "=", "x">>
tok_empty == <<>>
tok_o_dashdash == <<"-", "o", "-", "-">>
tok_at == <<"@", "f">>

CoreTokens == {tok_f, tok_x, tok_o, tok_output, tok_h, tok_dashdash,
               tok_unknown, tok_ox}

EdgeTokens == {tok_help, tok_out, tok_ambiguous, tok_minus1, tok_ho,
               tok_output_eq, tok_empty, tok_o_dashdash, tok_at}

Tokens == CoreTokens \cup EdgeTokens

SeqsUpTo(S, n) == UNION {[1..k -> S] : k \in 0..n}

ArgVectors == SeqsUpTo(CoreTokens, MaxArgs) \cup SeqsUpTo(Tokens, MaxEdgeArgs)

----------------------------------------------------------------------------
(* Values of a namespace attribute: None, a string, or the empty list that *)
(* _get_values returns when no string is left.                             *)

None == [tag |-> "None", str |-> <<>>]
Str(s) == [tag |-> "str", str |-> s]
EmptyList == [tag |-> "list", str |-> <<>>]

----------------------------------------------------------------------------
(* String helpers *)

IndexOf(s, c) ==
    IF \E i \in 1..Len(s) : s[i] = c
    THEN CHOOSE i \in 1..Len(s) : s[i] = c /\ \A j \in 1..(i-1) : s[j] # c
    ELSE 0

Contains(s, c) == IndexOf(s, c) # 0

\* s.split(c, 1) for an s that contains c
split1(s, c) ==
    LET i == IndexOf(s, c) IN <<SubSeq(s, 1, i-1), SubSeq(s, i+1, Len(s))>>

startswith(s, p) == Len(p) <= Len(s) /\ SubSeq(s, 1, Len(p)) = p

\* the concatenation of a sequence of sequences
RECURSIVE Concat(_)
Concat(ss) ==
    IF ss = <<>> THEN <<>> ELSE Head(ss) \o Concat(Tail(ss))

\* list.remove(x): drop the first occurrence, if any
remove_first(s, x) ==
    LET i == IndexOf(s, x)
    IN  IF i = 0 THEN s ELSE SubSeq(s, 1, i-1) \o SubSeq(s, i+1, Len(s))

----------------------------------------------------------------------------
(* The parser that main() configures *)

description == "Instrument C code for tracing."

prefix_chars == {"-"}

allow_abbrev == TRUE

\* (variant) ArgumentParser(fromfile_prefix_chars="@")
fromfile_prefix_chars_at == {"@"}

\* no prefix marks an argument as a file of arguments
fromfile_prefix_chars == {}

\* the option strings in registration order: -h/--help is added by the
\* constructor, -o/--output by add_argument
OptionStrings == <<tok_h, tok_help, tok_o, tok_output>>

IsOptionString(s) == \E i \in 1..Len(OptionStrings) : OptionStrings[i] = s

\* (variant) add_argument("-o") without the long spelling
option_string_actions_short_only(s) ==
    IF s \in {tok_h, tok_help} THEN "help"
    ELSE IF s = tok_o THEN "output"
    ELSE "none"

\* the action an option string is registered for
option_string_actions(s) ==
    IF s \in {tok_h, tok_help} THEN "help"
    ELSE IF s \in {tok_o, tok_output} THEN "output"
    ELSE "none"

\* the positional actions, in order
get_positional_actions == <<"input_file">>

\* (variant) input_file declared with nargs="?"
required_never(action) == FALSE

\* the actions that are required: a positional with nargs=None
required(action) == action = "input_file"

AllActions == <<"help", "input_file", "output">>

\* (variant) add_argument("-o", "--output", default="x")
DefaultNamespace_output_default == [input_file |-> None, output |-> Str(tok_x)]

\* parse_known_args: every dest starts at its default
DefaultNamespace == [input_file |-> None, output |-> None]

usage_text == "usage: prog [-h] [-o OUTPUT] input_file"

\* (variant) ArgumentParser() built without the description
format_help_without_description ==
    <<usage_text,
      "positional arguments: input_file Path to the C source file",
      "options: -h, --help; -o OUTPUT, --output OUTPUT Path to the output file">>

\* format_help: usage, description, then the argument groups
format_help ==
    <<usage_text, description,
      "positional arguments: input_file Path to the C source file",
      "options: -h, --help; -o OUTPUT, --output OUTPUT Path to the output file">>

----------------------------------------------------------------------------
(* _parse_optional and _get_option_tuples *)

Digits == {"0", "1", "2", "3", "4", "5", "6", "7", "8", "9"}

AllDigits(s) == \A i \in 1..Len(s) : s[i] \in Digits

\* _negative_number_matcher: ^-\d+$|^-\d*\.\d+$
negative_number_matcher(s) ==
    /\ Len(s) >= 2
    /\ s[1] = "-"
    /\ LET r == Tail(s)
       IN  \/ AllDigits(r)
           \/ \E k \in 1..(Len(r)-1) :
                  /\ r[k] = "."
                  /\ AllDigits(SubSeq(r, 1, k-1))
                  /\ AllDigits(SubSeq(r, k+1, Len(r)))

\* no option string of this parser looks like a negative number
has_negative_number_optionals == FALSE

OptionTuple(action, option_string, explicit_arg) ==
    [kind |-> "O", action |-> action, option_string |-> option_string,
     explicit_arg |-> explicit_arg]

NotOptional ==
    [kind |-> "A", action |-> "none", option_string |-> <<>>,
     explicit_arg |-> None]

AmbiguousOption ==
    [kind |-> "ambiguous", action |-> "none", option_string |-> <<>>,
     explicit_arg |-> None]

\* called with Len(option_string) >= 2 and option_string[1] a prefix char
get_option_tuples(option_string) ==
    IF option_string[2] \in prefix_chars
    THEN IF allow_abbrev
         THEN LET has_eq == Contains(option_string, "=")
                  option_prefix == IF has_eq THEN split1(option_string, "=")[1]
                                   ELSE option_string
                  explicit_arg == IF has_eq
                                  THEN Str(split1(option_string, "=")[2])
                                  ELSE None
                  One(os) == IF startswith(os, option_prefix)
                             THEN <<OptionTuple(option_string_actions(os), os,
                                                explicit_arg)>>
                             ELSE <<>>
              IN  Concat([i \in 1..Len(OptionStrings) |-> One(OptionStrings[i])])
         ELSE <<>>
    ELSE LET option_prefix == option_string
             short_option_prefix == SubSeq(option_string, 1, 2)
             short_explicit_arg == SubSeq(option_string, 3, Len(option_string))
             One(os) == IF os = short_option_prefix
                        THEN <<OptionTuple(option_string_actions(os), os,
                                           Str(short_explicit_arg))>>
                        ELSE IF startswith(os, option_prefix)
                        THEN <<OptionTuple(option_string_actions(os), os, None)>>
                        ELSE <<>>
         IN  Concat([i \in 1..Len(OptionStrings) |-> One(OptionStrings[i])])

\* a token that looks like an option but matches no option of the parser
unknown_optional(arg_string) == OptionTuple("none", arg_string, None)

parse_optional(arg_string) ==
    IF arg_string = <<>> THEN NotOptional
    ELSE IF arg_string[1] \notin prefix_chars THEN NotOptional
    ELSE IF IsOptionString(arg_string)
    THEN OptionTuple(option_string_actions(arg_string), arg_string, None)
    ELSE IF Len(arg_string) = 1 THEN NotOptional
    ELSE IF /\ Contains(arg_string, "=")
            /\ IsOptionString(split1(arg_string, "=")[1])
    THEN LET parts == split1(arg_string, "=")
         IN  OptionTuple(option_string_actions(parts[1]), parts[1], Str(parts[2]))
    ELSE LET option_tuples == get_option_tuples(arg_string)
         IN  IF Len(option_tuples) > 1 THEN AmbiguousOption
             ELSE IF Len(option_tuples) = 1 THEN option_tuples[1]
             ELSE IF /\ negative_number_matcher(arg_string)
                     /\ ~has_negative_number_optionals
             THEN NotOptional
             ELSE IF Contains(arg_string, " ") THEN NotOptional
             ELSE unknown_optional(arg_string)

----------------------------------------------------------------------------
(* The scan of _parse_known_args *)

\* _read_args_from_files: the files read in place of an argument
read_args_from_files(arg_strings) ==
    {arg_strings[i] : i \in {j \in 1..Len(arg_strings) :
                                 /\ arg_strings[j] # <<>>
                                 /\ arg_strings[j][1] \in fromfile_prefix_chars}}

\* index of the first "--", or Len+1 when there is none
first_dashdash(arg_strings) ==
    IF Contains(arg_strings, tok_dashdash)
    THEN IndexOf(arg_strings, tok_dashdash)
    ELSE Len(arg_strings) + 1

\* 'O' for an option, 'A' for an argument, '-' for the first "--";
\* everything after the first "--" is an argument and is not parsed
scan_pattern(arg_strings) ==
    LET dd == first_dashdash(arg_strings)
    IN  [i \in 1..Len(arg_strings) |->
            IF i > dd THEN "A"
            ELSE IF i = dd THEN "-"
            ELSE IF parse_optional(arg_strings[i]).kind = "O" THEN "O" ELSE "A"]

\* _parse_optional calls self.error on an ambiguous abbreviation
scan_ambiguous(arg_strings) ==
    \E i \in 1..(first_dashdash(arg_strings) - 1) :
        parse_optional(arg_strings[i]).kind = "ambiguous"

option_string_indices(pattern) == {i \in 1..Len(pattern) : pattern[i] = "O"}

\* max(option_string_indices), or the index before the first when empty
max_option_string_index(pattern) ==
    IF option_string_indices(pattern) = {} THEN 0
    ELSE CHOOSE i \in option_string_indices(pattern) :
             \A j \in option_string_indices(pattern) : j <= i

next_option_string_index(pattern, start) ==
    CHOOSE i \in option_string_indices(pattern) :
        /\ i >= start
        /\ \A j \in option_string_indices(pattern) : j >= start => i <= j

----------------------------------------------------------------------------
(* _get_nargs_pattern, _match_argument, _get_values *)

\* number of leading '-' of a pattern
RECURSIVE leading_dashes(_)
leading_dashes(pattern) ==
    IF pattern # <<>> /\ Head(pattern) = "-"
    THEN 1 + leading_dashes(Tail(pattern))
    ELSE 0

\* (variant) input_file declared with nargs="+": '(-*A[A-]*)'
nargs_match_one_or_more(action, pattern) ==
    IF action = "help" THEN 0
    ELSE IF action = "output"
    THEN IF pattern # <<>> /\ pattern[1] = "A" THEN 1 ELSE -1
    ELSE LET d1 == leading_dashes(pattern)
         IN  IF Len(pattern) > d1 /\ pattern[d1 + 1] = "A"
             THEN Len(pattern)
             ELSE -1

\* (variant) -o/--output declared with nargs="?": '(A?)'
nargs_match_optional_value(action, pattern) ==
    IF action = "help" THEN 0
    ELSE IF action = "output"
    THEN IF pattern # <<>> /\ pattern[1] = "A" THEN 1 ELSE 0
    ELSE LET d1 == leading_dashes(pattern)
         IN  IF Len(pattern) > d1 /\ pattern[d1 + 1] = "A"
             THEN d1 + 1 + leading_dashes(SubSeq(pattern, d1 + 2, Len(pattern)))
             ELSE -1

\* re.match of the action's nargs pattern at the start of `pattern`: the
\* length of the match, or -1 when there is none.  help has nargs=0: '()';
\* output has nargs=None and option strings: '(A)'; input_file has
\* nargs=None and is positional: '(-*A-*)'.
nargs_match(action, pattern) ==
    IF action = "help" THEN 0
    ELSE IF action = "output"
    THEN IF pattern # <<>> /\ pattern[1] = "A" THEN 1 ELSE -1
    ELSE LET d1 == leading_dashes(pattern)
         IN  IF Len(pattern) > d1 /\ pattern[d1 + 1] = "A"
             THEN d1 + 1 + leading_dashes(SubSeq(pattern, d1 + 2, Len(pattern)))
             ELSE -1

\* _match_arguments_partial: the counts for the longest prefix of the
\* positionals left that matches
match_arguments_partial(actions, pattern) ==
    IF actions = <<>> THEN <<>>
    ELSE IF nargs_match(actions[1], pattern) >= 0
    THEN <<nargs_match(actions[1], pattern)>>
    ELSE <<>>

\* the files the type conversion of _get_value opens: type is None, the
\* identity, for both arguments
type_func_opens(action, arg_string) == {}

\* _get_value: the registered type applied to the string
get_value(action, arg_string) == Str(arg_string)

\* (variant) the first "--" is not stripped from the strings
get_values_keeps_dashdash(action, strings) ==
    IF Len(strings) = 1 /\ action # "help"
    THEN get_value(action, strings[1])
    ELSE EmptyList

\* _get_values for nargs=None (and nargs=0, whose value is not used)
get_values(action, strings) ==
    LET left == remove_first(strings, tok_dashdash)
    IN  IF Len(left) = 1 /\ action # "help"
        THEN get_value(action, left[1])
        ELSE EmptyList

get_values_opens(action, strings) ==
    LET left == remove_first(strings, tok_dashdash)
    IN  IF Len(left) = 1 /\ action # "help"
        THEN type_func_opens(action, left[1])
        ELSE {}

----------------------------------------------------------------------------
(* consume_optional *)

ActionTuple(action, strings, option_string) ==
    [action |-> action, strings |-> strings, option_string |-> option_string]

OptExtra == [kind |-> "extra", action_tuples |-> <<>>, stop |-> 0,
             message |-> ""]

OptError(message) == [kind |-> "error", action_tuples |-> <<>>, stop |-> 0,
                      message |-> message]

OptOk(action_tuples, stop) == [kind |-> "ok", action_tuples |-> action_tuples,
                               stop |-> stop, message |-> ""]

\* the while True loop of consume_optional
RECURSIVE consume_optional_loop(_, _, _, _, _, _, _)
consume_optional_loop(arg_strings, pattern, start, action, option_string, explicit_arg, action_tuples) ==
    IF action = "none" THEN OptExtra
    ELSE IF explicit_arg # None
    THEN LET arg_count == nargs_match(action, <<"A">>)
         IN  IF /\ arg_count = 0
                /\ option_string[2] \notin prefix_chars
                /\ explicit_arg.str # <<>>
             THEN LET new_option_string == <<option_string[1], explicit_arg.str[1]>>
                      new_explicit_arg ==
                          IF Len(explicit_arg.str) > 1
                          THEN Str(Tail(explicit_arg.str))
                          ELSE None
                  IN  IF IsOptionString(new_option_string)
                      THEN consume_optional_loop(
                               arg_strings, pattern, start,
                               option_string_actions(new_option_string),
                               new_option_string, new_explicit_arg,
                               Append(action_tuples,
                                      ActionTuple(action, <<>>, option_string)))
                      ELSE OptError("ignored explicit argument")
             ELSE IF arg_count = 1
             THEN OptOk(Append(action_tuples,
                               ActionTuple(action, <<explicit_arg.str>>,
                                           option_string)),
                        start + 1)
             ELSE OptError("ignored explicit argument")
    ELSE LET selected_patterns == SubSeq(pattern, start + 1, Len(pattern))
             arg_count == nargs_match(action, selected_patterns)
         IN  IF arg_count < 0 THEN OptError("expected one argument")
             ELSE OptOk(Append(action_tuples,
                               ActionTuple(action,
                                           SubSeq(arg_strings, start + 1,
                                                  start + arg_count),
                                           option_string)),
                        start + 1 + arg_count)

consume_optional(arg_strings, pattern, start) ==
    LET option_tuple == parse_optional(arg_strings[start])
    IN  consume_optional_loop(arg_strings, pattern, start, option_tuple.action,
                              option_tuple.option_string,
                              option_tuple.explicit_arg, <<>>)

\* take_action over the action tuples, in order: _StoreAction sets the dest,
\* _HelpAction prints the help and exits, so the tuples after it are not taken
RECURSIVE take_actions(_, _, _, _)
take_actions(action_tuples, ns, seen, opened) ==
    IF action_tuples = <<>>
    THEN [namespace |-> ns, seen |-> seen, opened |-> opened, help |-> FALSE]
    ELSE LET t == Head(action_tuples)
         IN  IF t.action = "help"
             THEN [namespace |-> ns, seen |-> seen \cup {"help"},
                   opened |-> opened, help |-> TRUE]
             ELSE take_actions(
                      Tail(action_tuples),
                      [ns EXCEPT ![t.action] = get_values(t.action, t.strings)],
                      seen \cup {t.action},
                      opened \cup get_values_opens(t.action, t.strings))

----------------------------------------------------------------------------
(* consume_positionals *)

\* the index after the positionals consumed, the namespace and the
\* positionals left
consume_positionals(arg_strings, pattern, start, actions, ns, seen, opened) ==
    LET selected_pattern == SubSeq(pattern, start, Len(pattern))
        arg_counts == match_arguments_partial(actions, selected_pattern)
    IN  IF arg_counts = <<>>
        THEN [stop |-> start, namespace |-> ns, seen |-> seen,
              opened |-> opened, positionals |-> actions]
        ELSE LET strings == SubSeq(arg_strings, start, start + arg_counts[1] - 1)
             IN  [stop |-> start + arg_counts[1],
                  namespace |-> [ns EXCEPT ![actions[1]] =
                                     get_values(actions[1], strings)],
                  seen |-> seen \cup {actions[1]},
                  opened |-> opened \cup get_values_opens(actions[1], strings),
                  positionals |-> Tail(actions)]

\* (variant) parse_known_args called in place of parse_args
parse_args_rejects_nothing(argument_strings) == FALSE

\* parse_args: any string left over is an error
parse_args_rejects(argument_strings) == argument_strings # <<>>

----------------------------------------------------------------------------
(* Exiting *)

\* (variant) the message is printed and the process exits with status 0
error_exits_zero(message) ==
    /\ stderr' = stderr \o <<usage_text, message>>
    /\ exit_status' = <<0>>
    /\ pc' = "exited"
    /\ UNCHANGED <<stdout, args>>

\* parser.error(message): the usage and the message on stderr, exit status 2
error(message) ==
    /\ stderr' = stderr \o <<usage_text, message>>
    /\ exit_status' = <<2>>
    /\ pc' = "exited"
    /\ UNCHANGED <<stdout, args>>

\* _HelpAction: print_help() on stdout, then parser.exit() with status 0
print_help_and_exit ==
    /\ stdout' = stdout \o format_help
    /\ exit_status' = <<0>>
    /\ pc' = "exited"
    /\ UNCHANGED <<stderr, args>>

----------------------------------------------------------------------------
(* The state machine *)

Init ==
    /\ argv \in ArgVectors
    /\ pc = "parse_args"
    /\ arg_strings_pattern = <<>>
    /\ start_index = 1
    /\ positionals = <<>>
    /\ namespace = DefaultNamespace
    /\ seen_actions = {}
    /\ extras = <<>>
    /\ args = None
    /\ exit_status = <<>>
    /\ stdout = <<>>
    /\ stderr = <<>>
    /\ files_touched = {}

\* parse_args entered: the defaults are set and every token is classified
ScanArgs ==
    /\ pc = "parse_args"
    /\ IF scan_ambiguous(argv)
       THEN /\ error("ambiguous option")
            /\ UNCHANGED <<arg_strings_pattern, positionals>>
       ELSE /\ arg_strings_pattern' = scan_pattern(argv)
            /\ positionals' = get_positional_actions
            /\ pc' = "loop"
            /\ UNCHANGED <<stdout, stderr, args, exit_status>>
    /\ files_touched' = files_touched \cup read_args_from_files(argv)
    /\ UNCHANGED <<argv, start_index, namespace, seen_actions, extras>>

\* the positionals consumed at start_index when an option lies further on
PositionalsBeforeOption ==
    IF start_index # next_option_string_index(arg_strings_pattern, start_index)
    THEN consume_positionals(argv, arg_strings_pattern, start_index,
                             positionals, namespace, seen_actions,
                             files_touched)
    ELSE [stop |-> start_index, namespace |-> namespace,
          seen |-> seen_actions, opened |-> files_touched,
          positionals |-> positionals]

\* one iteration of the while loop that ends in `continue`: positionals
\* before the next option were consumed
ConsumePositionals ==
    /\ pc = "loop"
    /\ start_index <= max_option_string_index(arg_strings_pattern)
    /\ PositionalsBeforeOption.stop > start_index
    /\ start_index' = PositionalsBeforeOption.stop
    /\ namespace' = PositionalsBeforeOption.namespace
    /\ seen_actions' = PositionalsBeforeOption.seen
    /\ files_touched' = PositionalsBeforeOption.opened
    /\ positionals' = PositionalsBeforeOption.positionals
    /\ UNCHANGED <<argv, pc, arg_strings_pattern, extras, args, exit_status,
                   stdout, stderr>>

\* one iteration of the while loop that reaches consume_optional: the
\* strings before the next option are extras, then the option is consumed
ConsumeOptional ==
    /\ pc = "loop"
    /\ start_index <= max_option_string_index(arg_strings_pattern)
    /\ PositionalsBeforeOption.stop = start_index
    /\ LET next == next_option_string_index(arg_strings_pattern, start_index)
           skipped == SubSeq(argv, start_index, next - 1)
           res == consume_optional(argv, arg_strings_pattern, next)
           taken == take_actions(res.action_tuples, namespace, seen_actions,
                                 files_touched)
       IN  IF res.kind = "extra"
           THEN /\ extras' = extras \o skipped \o <<argv[next]>>
                /\ start_index' = next + 1
                /\ UNCHANGED <<namespace, seen_actions, files_touched, pc, args,
                               exit_status, stdout, stderr>>
           ELSE IF res.kind = "error"
           THEN /\ error(res.message)
                /\ extras' = extras \o skipped
                /\ start_index' = next
                /\ UNCHANGED <<namespace, seen_actions, files_touched>>
           ELSE /\ extras' = extras \o skipped
                /\ namespace' = taken.namespace
                /\ seen_actions' = taken.seen
                /\ files_touched' = taken.opened
                /\ IF taken.help
                   THEN /\ print_help_and_exit
                        /\ start_index' = next
                   ELSE /\ start_index' = res.stop
                        /\ UNCHANGED <<pc, args, exit_status, stdout, stderr>>
    /\ UNCHANGED <<argv, arg_strings_pattern, positionals>>

\* after the loop: the positionals after the last option, the extras, the
\* required arguments, then parse_args' own check of the extras; main()
\* binds the namespace to args and the process ends with status 0
Finish ==
    /\ pc = "loop"
    /\ start_index > max_option_string_index(arg_strings_pattern)
    /\ LET last == consume_positionals(argv, arg_strings_pattern, start_index,
                                       positionals, namespace, seen_actions,
                                       files_touched)
           all_extras == extras \o SubSeq(argv, last.stop, Len(argv))
           required_actions ==
               SelectSeq(AllActions,
                         LAMBDA a : a \notin last.seen /\ required(a))
       IN  /\ start_index' = last.stop
           /\ namespace' = last.namespace
           /\ seen_actions' = last.seen
           /\ files_touched' = last.opened
           /\ positionals' = last.positionals
           /\ extras' = all_extras
           /\ IF required_actions # <<>>
              THEN error("the following arguments are required")
              ELSE IF parse_args_rejects(all_extras)
              THEN error("unrecognized arguments")
              ELSE /\ args' = last.namespace
                   /\ exit_status' = <<0>>
                   /\ pc' = "done"
                   /\ UNCHANGED <<stdout, stderr>>
    /\ UNCHANGED <<argv, arg_strings_pattern>>

Next == ScanArgs \/ ConsumePositionals \/ ConsumeOptional \/ Finish

Spec == Init /\ [][Next]_vars

----------------------------------------------------------------------------
(* Vocabulary of the properties *)

Finished == pc \in {"done", "exited"}

\* a successful parse: main() holds the Invocation in args
Success == pc = "done"

UsageError ==
    /\ pc = "exited"
    /\ exit_status = <<2>>
    /\ stderr # <<>>
    /\ stderr[1] = usage_text
    /\ args = None

HelpShown ==
    /\ pc = "exited"
    /\ exit_status = <<0>>
    /\ \E i \in 1..Len(stdout) : stdout[i] = description
    /\ args = None

\* the tokens before the first "--": the only ones that can be options
BeforeDashDash == 1..(first_dashdash(argv) - 1)

\* the tokens that are arguments ('A') in the scan of argv
ArgumentIndices == {i \in 1..Len(argv) : scan_pattern(argv)[i] = "A"}

\* token i is the value that the option at i-1 takes from the next token
IsOptionValue(i) ==
    /\ i - 1 \in BeforeDashDash
    /\ scan_pattern(argv)[i - 1] = "O"
    /\ LET res == consume_optional(argv, scan_pattern(argv), i - 1)
       IN  res.kind = "ok" /\ res.stop = i + 1

\* the positional tokens: arguments that are not the value of an option
PositionalIndices == {i \in ArgumentIndices : ~IsOptionValue(i)}

\* the tokens parsed as the output option, in any spelling
OutputIndices ==
    {i \in BeforeDashDash : parse_optional(argv[i]).action = "output"}

\* the tokens parsed as the help option, in any spelling
HelpIndices ==
    {i \in BeforeDashDash : parse_optional(argv[i]).action = "help"}

\* the tokens that look like an option and match none
UnrecognizedIndices ==
    {i \in BeforeDashDash :
        /\ parse_optional(argv[i]).kind = "O"
        /\ parse_optional(argv[i]).action = "none"}

OutputFlags == {tok_o, tok_output}

HelpFlags == {tok_h, tok_help}

Last(S) == CHOOSE i \in S : \A j \in S : j <= i

NoDash(t) == t = <<>> \/ t[1] # "-"

----------------------------------------------------------------------------
(* C1 *)

\* C1: a successful parse of an argument vector with exactly one positional
\* token t yields input_file = t, character for character, whether or not
\* an output option is supplied.
C1_InputFileVerbatim ==
    (Success /\ Cardinality(PositionalIndices) = 1)
        => \A i \in PositionalIndices : args.input_file = Str(argv[i])

\* a successful parse with "--", one positional token and an output value
C1_Witness ==
    /\ Success
    /\ Cardinality(PositionalIndices) = 1
    /\ Contains(argv, tok_dashdash)
    /\ args.output # None
    /\ args.input_file = Str(tok_f)

----------------------------------------------------------------------------
(* C2 *)

\* C2 as stated: every `-o X` / `--output X` of a successful parse makes
\* output = X, and without an output option output is null.
C2_Original ==
    Success =>
        /\ \A i \in OutputIndices :
               argv[i] \in OutputFlags => args.output = Str(argv[i + 1])
        /\ OutputIndices = {} => args.output = None

\* C2 (amended): in a successful parse, when the last output option is
\* given as `-o X` or `--output X`, output = X; when no token is parsed as
\* the output option, output is null.
C2_LastOutputWins ==
    Success =>
        /\ (OutputIndices # {} /\ argv[Last(OutputIndices)] \in OutputFlags)
               => args.output = Str(argv[Last(OutputIndices) + 1])
        /\ OutputIndices = {} => args.output = None

\* a successful parse with two output options, the last one `-o X`
C2_Witness ==
    /\ Success
    /\ Cardinality(OutputIndices) = 2
    /\ argv[Last(OutputIndices)] = tok_o
    /\ args.output = Str(tok_x)
    /\ args.input_file = Str(tok_f)

----------------------------------------------------------------------------
(* C3 *)

\* C3: the empty argument vector, and a vector holding only `-o X` or
\* `--output X`, end in a non-zero exit status without an Invocation; no
\* vector without a positional token parses successfully, and every
\* Invocation holds an input_file.
C3_MissingPositional ==
    /\ (Finished /\ (argv = <<>> \/ (Len(argv) = 2 /\ argv[1] \in OutputFlags)))
           => (exit_status = <<2>> /\ args = None)
    /\ (Finished /\ PositionalIndices = {}) => ~Success
    /\ Success => args.input_file.tag = "str"

\* `-o x` alone has ended in a usage error for the missing input_file
C3_Witness ==
    /\ argv = <<tok_o, tok_x>>
    /\ namespace.output = Str(tok_x)
    /\ UsageError
    /\ stderr[Len(stderr)] = "the following arguments are required"

----------------------------------------------------------------------------
(* C4 *)

\* C4 as stated: `-o` or `--output` as the final token ends in a non-zero
\* exit status without an Invocation.
C4_Original ==
    (Finished /\ argv # <<>> /\ argv[Len(argv)] \in OutputFlags)
        => (exit_status = <<2>> /\ args = None)

\* C4 (amended): `-o` or `--output` as the final token ends in a non-zero
\* exit status without an Invocation, provided no "--" token and no help
\* option precedes it.
C4_TrailingOutputFlag ==
    (/\ Finished
     /\ argv # <<>>
     /\ argv[Len(argv)] \in OutputFlags
     /\ ~Contains(argv, tok_dashdash)
     /\ HelpIndices = {})
        => (exit_status = <<2>> /\ args = None)

\* a positional token then a final `-o`: "expected one argument"
C4_Witness ==
    /\ argv = <<tok_f, tok_o>>
    /\ UsageError
    /\ stderr[Len(stderr)] = "expected one argument"
    /\ namespace.input_file = Str(tok_f)

----------------------------------------------------------------------------
(* C5 *)

\* C5 as stated: a flag token other than -o, --output, -h, --help ends in a
\* usage error: usage on stderr, non-zero exit status, no Invocation.
C5_Original ==
    (Finished /\ \E i \in BeforeDashDash :
                     /\ Len(argv[i]) >= 2
                     /\ argv[i][1] = "-"
                     /\ argv[i] \notin (OutputFlags \cup HelpFlags))
        => UsageError

\* C5 (amended): a token the parser takes for an option and matches with
\* none of its options never yields an Invocation, and ends in a usage
\* error (usage on stderr, exit status 2) unless a help option is supplied
\* too.
C5_UnrecognizedFlag ==
    (Finished /\ UnrecognizedIndices # {})
        => /\ ~Success
           /\ args = None
           /\ HelpIndices = {} => UsageError

\* `f -x`: the positional token is valid, the flag is reported
C5_Witness ==
    /\ argv = <<tok_f, tok_unknown>>
    /\ UsageError
    /\ stderr[Len(stderr)] = "unrecognized arguments"
    /\ extras = <<tok_unknown>>

----------------------------------------------------------------------------
(* C6 *)

\* C6 as stated: a `-h` or `--help` token ends in exit status 0 with the
\* description in the help text and no Invocation.
C6_Original ==
    (Finished /\ \E i \in 1..Len(argv) : argv[i] \in HelpFlags) => HelpShown

\* every option before token i is well formed: an output option has its
\* value, a help option has no attached text
WellFormedBefore(i) ==
    \A j \in 1..(i - 1) :
        scan_pattern(argv)[j] = "O" =>
            LET t == parse_optional(argv[j])
            IN  \/ t.action = "none"
                \/ /\ t.action = "output"
                   /\ \/ t.explicit_arg # None
                      \/ (j < Len(argv) /\ scan_pattern(argv)[j + 1] = "A")
                \/ t.action = "help" /\ t.explicit_arg = None

\* C6 (amended): a `-h` or `--help` token that no "--" precedes ends in
\* exit status 0 with the description in the help text on stdout, nothing
\* on stderr and no Invocation, with or without a positional token,
\* provided no token before the first "--" is an ambiguous abbreviation and
\* every option before the help token is well formed.
C6_HelpExitsZero ==
    (/\ Finished
     /\ ~scan_ambiguous(argv)
     /\ \E i \in BeforeDashDash : argv[i] \in HelpFlags /\ WellFormedBefore(i))
        => (HelpShown /\ stderr = <<>>)

\* `-h` alone, with no positional token, has printed the help
C6_Witness ==
    /\ argv = <<tok_h>>
    /\ HelpShown
    /\ stdout = format_help
    /\ PositionalIndices = {}

----------------------------------------------------------------------------
(* C7 *)

----------------------------------------------------------------------------
(* C8 *)

\* C8: no step of the program opens, reads or writes a file, whatever the
\* argument vector: not the file named by input_file, not the path named
\* by output, not a file of arguments; and once the Invocation is bound
\* nothing changes it.
C8_NoFileTouched ==
    /\ files_touched = {}
    /\ Success => (args = namespace /\ ~ENABLED Next)

\* a successful parse that stored both paths, one of them "@f"
C8_Witness ==
    /\ Success
    /\ args.input_file = Str(tok_at)
    /\ args.output # None
    /\ files_touched = {}

----------------------------------------------------------------------------
(* C9 *)

\* C9 as stated: more than one positional token ends in a non-zero exit
\* status without an Invocation.
C9_Original ==
    (Finished /\ Cardinality(PositionalIndices) > 1)
        => (exit_status = <<2>> /\ args = None)

\* C9 (amended): more than one positional token never yields an
\* Invocation, and ends in a usage error (exit status 2) unless a help
\* option is supplied too.
C9_ExtraPositional ==
    (Finished /\ Cardinality(PositionalIndices) > 1)
        => /\ ~Success
           /\ args = None
           /\ HelpIndices = {} => UsageError

\* `f -o x x`: the second positional token is reported, not dropped
C9_Witness ==
    /\ argv = <<tok_f, tok_o, tok_x, tok_x>>
    /\ UsageError
    /\ extras = <<tok_x>>
    /\ namespace.output = Str(tok_x)

----------------------------------------------------------------------------
(* C10 *)

\* C10: for tokens f and X that do not begin with "-", the vectors
\* [f, -o, X], [-o, X, f], [f, --output, X] and [--output, X, f] all parse
\* successfully to input_file = f and output = X.
C10_FlagPlacement ==
    \A f \in {t \in Tokens : NoDash(t)}, X \in {t \in Tokens : NoDash(t)} :
        (Finished /\ argv \in {<<f, tok_o, X>>, <<tok_o, X, f>>,
                               <<f, tok_output, X>>, <<tok_output, X, f>>})
            => (Success /\ args = [input_file |-> Str(f), output |-> Str(X)])

\* the long flag before the positional token has parsed
C10_Witness ==
    /\ argv = <<tok_output, tok_x, tok_f>>
    /\ Success
    /\ args = [input_file |-> Str(tok_f), output |-> Str(tok_x)]

====
